---- MODULE Spec2Model ----
(***************************************************************************)
(* growthstockportfolioallocator: the per-stock financial model (Stock)    *)
(* and the Monte-Carlo allocation loop (Portfolio).                        *)
(*                                                                         *)
(* Numbers.  A Python / numpy float is modelled as an exact rational       *)
(* <<n, d>> with d > 0 in lowest terms, or as one of the three IEEE        *)
(* specials: <<1, 0>> = +inf, <<-1, 0>> = -inf, <<0, 0>> = NaN.  Rounding   *)
(* and the sign of zero are not modelled.                                  *)
(***************************************************************************)
EXTENDS Integers, Sequences, FiniteSets

(* ------------------------------------------------------------------ *)
(* Arithmetic                                                          *)
(* ------------------------------------------------------------------ *)

Abs(x) == IF x < 0 THEN -x ELSE x

Sign(x) == IF x < 0 THEN -1 ELSE IF x > 0 THEN 1 ELSE 0

RECURSIVE GCD(_, _)
GCD(a, b) == IF b = 0 THEN a ELSE GCD(b, a % b)

\* the float with numerator n over denominator d >= 0, in lowest terms
Norm(n, d) ==
    IF d = 0 THEN <<Sign(n), 0>>
    ELSE LET g == GCD(Abs(n), d) IN <<n \div g, d \div g>>

Num(n) == <<n, 1>>
Pct(n) == Norm(n, 100)

NaN == <<0, 0>>
PosInf == <<1, 0>>
NegInf == <<-1, 0>>

IsNaN(x) == x = NaN
IsFinite(x) == x[2] # 0
IsZero(x) == x[1] = 0 /\ x[2] # 0
IsNeg(x) == x[1] < 0
IsPos(x) == x[1] > 0

\* x + y
Add(x, y) ==
    IF IsNaN(x) \/ IsNaN(y) THEN NaN
    ELSE IF ~IsFinite(x) /\ ~IsFinite(y) THEN (IF x = y THEN x ELSE NaN)
    ELSE IF ~IsFinite(x) THEN x
    ELSE IF ~IsFinite(y) THEN y
    ELSE LET g == GCD(x[2], y[2])
         IN Norm(x[1] * (y[2] \div g) + y[1] * (x[2] \div g), (x[2] \div g) * y[2])

Neg(x) == <<-x[1], x[2]>>

Sub(x, y) == Add(x, Neg(y))

\* x * y (inf * 0 = NaN)
Mul(x, y) ==
    LET g1 == GCD(Abs(x[1]), y[2])
        g2 == GCD(Abs(y[1]), x[2])
    IN IF x[2] = 0 \/ y[2] = 0 THEN <<Sign(x[1] * y[1]), 0>>
       ELSE Norm((x[1] \div g1) * (y[1] \div g2), (x[2] \div g2) * (y[2] \div g1))

\* 1 / y with the IEEE results: 1/0 = inf, 1/inf = 0, 1/NaN = NaN
Recip(y) ==
    IF y[1] < 0 THEN <<-y[2], -y[1]>>
    ELSE <<y[2], y[1]>>

\* x / y of numpy floats: never raises; x/0 is +-inf, 0/0 and inf/inf are NaN
Div(x, y) == Mul(x, Recip(y))

Less(x, y) == IsNeg(Sub(x, y))

RECURSIVE SumFrom(_, _)
SumFrom(s, k) == IF k > Len(s) THEN Num(0) ELSE Add(s[k], SumFrom(s, k + 1))

\* the sum of a sequence of floats (0 for the empty one)
SumSeq(s) == SumFrom(s, 1)

(* ------------------------------------------------------------------ *)
(* Stock                                                               *)
(* ------------------------------------------------------------------ *)

Million == 1000000

\* the coefficients of the dispersion factor 0.50 - 0.45 * predictability
DispersionBase == <<1, 2>>
DispersionSlope == <<9, 20>>

\* A spreadsheet row: the raw columns, in the spreadsheet's units (percentages,
\* millions).  numpy tells whether the row holds numpy scalars (a row taken with
\* .loc / .iloc) or Python numbers (a row from DataFrame.iterrows, as import_xlsx
\* makes them): the two differ in what a division by zero does.
Row(name, numpy, rf, erp, beta, shares, tax, interest, debt, pfd_div, pfd, cash_flow, predictability, rotc, plowback, price) ==
    [Stock |-> name, Industry |-> "Industry", MSMoat |-> "Wide", MSMoatTrend |-> "Stable",
     MSCapitalAllocation |-> "Standard", numpy |-> numpy,
     ExpRealReturn |-> erp, RiskFreeYield |-> rf, Beta |-> beta,
     Shares |-> shares, TaxRate |-> tax, LTInterest |-> interest, LTDebt |-> debt,
     PfdDivd |-> pfd_div, PfdStock |-> pfd, CashFlowPerShare |-> cash_flow,
     Predictability |-> predictability, ROTC |-> rotc, Plowback |-> plowback,
     CurrentPrice |-> price]

\* Stock.__init__, the assignments of the inputs
StockInputs(row) ==
    [stock |-> row.Stock,
     industry |-> row.Industry,
     ms_moat |-> row.MSMoat,
     ms_moat_trend |-> row.MSMoatTrend,
     ms_capital_allocation |-> row.MSCapitalAllocation,
     numpy |-> row.numpy,
     us_equities_exp_real_return_10y |-> Pct(row.ExpRealReturn),
     us_treasury_note_risk_free_yield_10y |-> Pct(row.RiskFreeYield),
     beta |-> Num(row.Beta),
     common_shares_outstanding |-> Num(row.Shares * Million),
     tax_rate |-> Pct(row.TaxRate),
     long_term_interest_payment |-> Num(row.LTInterest * Million),
     long_term_debt_balance |-> Num(row.LTDebt * Million),
     preferred_dividend |-> Num(row.PfdDivd * Million),
     preferred_stock |-> Num(row.PfdStock * Million),
     vl_cash_flow_per_share |-> Num(row.CashFlowPerShare),
     vl_earnings_predictability |-> Pct(row.Predictability),
     vl_return_on_total_capital |-> Pct(row.ROTC),
     vl_retained_earnings_plowback_ratio |-> Pct(row.Plowback),
     price |-> Num(row.CurrentPrice)]

\* (0.50 - 0.45 * predictability) * mean
StdDev(self, mean) ==
    Mul(Sub(DispersionBase, Mul(DispersionSlope, self.vl_earnings_predictability)), mean)

\* Stock._derive_distributions: the three attributes it sets
DeriveDistributions(self) ==
    [vl_cash_flow_per_share_std_dev |-> StdDev(self, self.vl_cash_flow_per_share),
     vl_return_on_total_capital_std_dev |-> StdDev(self, self.vl_return_on_total_capital),
     vl_retained_earnings_plowback_ratio_std_dev |->
         StdDev(self, self.vl_retained_earnings_plowback_ratio)]

\* a WACC whose cost of debt is taken before tax
CalculateWacc_PreTax(self) ==
    LET cost_of_debt ==
            IF IsPos(self.long_term_debt_balance)
            THEN Div(self.long_term_interest_payment, self.long_term_debt_balance)
            ELSE Num(0)
        cost_of_preferred_equity ==
            IF IsPos(self.preferred_stock)
            THEN Div(self.preferred_dividend, self.preferred_stock)
            ELSE Num(0)
        cost_of_equity ==
            Add(self.us_treasury_note_risk_free_yield_10y,
                Mul(self.beta, self.us_equities_exp_real_return_10y))
        total_capital ==
            Add(Add(self.long_term_debt_balance, self.preferred_stock),
                Mul(self.common_shares_outstanding, self.price))
    IN Div(Add(Add(Mul(cost_of_debt, self.long_term_debt_balance),
                   Mul(cost_of_preferred_equity, self.preferred_stock)),
               Mul(Mul(cost_of_equity, self.common_shares_outstanding), self.price)),
           total_capital)

\* Stock._calculate_wacc: the value of weighted_average_cost_of_capital
CalculateWacc(self) ==
    LET after_tax_historical_cost_of_debt ==
            IF IsPos(self.long_term_debt_balance)
            THEN Mul(Div(self.long_term_interest_payment, self.long_term_debt_balance),
                     Sub(Num(1), self.tax_rate))
            ELSE Num(0)
        cost_of_preferred_equity ==
            IF IsPos(self.preferred_stock)
            THEN Div(self.preferred_dividend, self.preferred_stock)
            ELSE Num(0)
        cost_of_equity ==
            Add(self.us_treasury_note_risk_free_yield_10y,
                Mul(self.beta, self.us_equities_exp_real_return_10y))
        total_capital ==
            Add(Add(self.long_term_debt_balance, self.preferred_stock),
                Mul(self.common_shares_outstanding, self.price))
    IN Div(Add(Add(Mul(after_tax_historical_cost_of_debt, self.long_term_debt_balance),
                   Mul(cost_of_preferred_equity, self.preferred_stock)),
               Mul(Mul(cost_of_equity, self.common_shares_outstanding), self.price)),
           total_capital)

\* f @@ g for records: the fields of both
Merge(f, g) ==
    [k \in (DOMAIN f) \cup (DOMAIN g) |-> IF k \in DOMAIN g THEN g[k] ELSE f[k]]

\* Stock(row): the object after __init__
NewStock(row) ==
    LET inputs == StockInputs(row)
        derived == Merge(inputs, DeriveDistributions(inputs))
    IN Merge(derived, [weighted_average_cost_of_capital |-> CalculateWacc(derived)])

\* np.random.normal(loc, scale): loc + scale * z for a standard normal draw z
Normal(loc, scale, z) == Add(loc, Mul(scale, Num(z)))

\* a roll_once that does not clamp the plowback draw
Clip_None(x, lo, hi) == x

\* np.clip(x, lo, hi)
Clip(x, lo, hi) == IF Less(x, lo) THEN lo ELSE IF Less(hi, x) THEN hi ELSE x

Raise(exception) == [raised |-> exception, value |-> <<>>]
Return(value) == [raised |-> "none", value |-> value]

\* Stock.roll_once with the standard normal draws z = <<z_rotc, z_plowback, z_cash_flow>>:
\* the tuple it returns, or the exception it raises.  np.random.normal raises
\* ValueError for a negative scale; self.price / cash_flow raises ZeroDivisionError
\* when price is a Python number, and is +-inf when price is a numpy scalar.
RollOnce(self, z) ==
    IF IsNeg(self.vl_return_on_total_capital_std_dev) THEN Raise("ValueError")
    ELSE IF IsNeg(self.vl_retained_earnings_plowback_ratio_std_dev) THEN Raise("ValueError")
    ELSE IF IsNeg(self.vl_cash_flow_per_share_std_dev) THEN Raise("ValueError")
    ELSE
    LET rotc == Normal(self.vl_return_on_total_capital,
                       self.vl_return_on_total_capital_std_dev, z[1])
        plowback_ratio == Clip(Normal(self.vl_retained_earnings_plowback_ratio,
                                      self.vl_retained_earnings_plowback_ratio_std_dev, z[2]),
                               Num(0), Num(1))
        excess_return_on_total_capital == Sub(rotc, self.weighted_average_cost_of_capital)
        operating_profit_growth_rate ==
            Mul(Mul(Num(100), excess_return_on_total_capital), plowback_ratio)
        cash_flow == Normal(self.vl_cash_flow_per_share,
                            self.vl_cash_flow_per_share_std_dev, z[3])
        price_to_cash_flow == Div(self.price, cash_flow)
        ratio == Div(operating_profit_growth_rate, price_to_cash_flow)
    IN IF IsZero(cash_flow) /\ ~self.numpy THEN Raise("ZeroDivisionError")
       ELSE Return(<<operating_profit_growth_rate, price_to_cash_flow, ratio>>)

\* a roll_once that keeps its cash-flow draw in the attribute it drew it from
RollOnceSelf_StoresDraw(self, z) ==
    [self EXCEPT !.vl_cash_flow_per_share =
        Normal(self.vl_cash_flow_per_share, self.vl_cash_flow_per_share_std_dev, z[3])]

\* the Stock object after roll_once: the method assigns no attribute
RollOnceSelf(self, z) == self

(* ------------------------------------------------------------------ *)
(* Inputs                                                              *)
(* ------------------------------------------------------------------ *)

\* Spreadsheet rows.  Every row has price > 0, shares > 0, debt >= 0 and preferred
\* stock >= 0, so that total capital is > 0 and construction succeeds.
\*            name numpy  rf erp beta sh tax int debt pdiv pfd  cf pred rotc plow price
RowA == Row("A", FALSE, 2, 4, 1, 1, 20, 1, 2, 1, 1,  2,   0, 50,  80,  3)
RowB == Row("B", TRUE,  2, 4, 1, 1, 20, 1, 2, 1, 1,  1,   0, 50,  80,  3)
RowC == Row("C", FALSE, 2, 4, 2, 2, 25, 0, 0, 0, 0,  4, 100, 20,  50, 10)
RowD == Row("D", TRUE,  1, 5, 1, 1, 50, 1, 4, 0, 0,  3,   0, 10, 100,  6)
RowE == Row("E", TRUE,  3, 5, 0, 2, 20, 0, 0, 1, 5,  0, 100, 30,   0,  5)
RowN == Row("N", FALSE, 2, 4, 1, 1, 20, 1, 2, 1, 1, -1,  50, 50,  80,  3)
RowR == Row("R", TRUE,  2, 4, 1, 1, 20, 1, 2, 1, 1,  2,  50, -5,  80,  3)

Rows == {RowA, RowB, RowC, RowD, RowE, RowN, RowR}

\* import_xlsx: the dict of Stock objects, in the order of the spreadsheet's rows
ImportXlsx(rows) ==
    [keys |-> [k \in 1..Len(rows) |-> rows[k].Stock],
     at |-> [name \in {rows[k].Stock : k \in 1..Len(rows)} |->
                NewStock(CHOOSE r \in {rows[k] : k \in 1..Len(rows)} : r.Stock = name)]]

\* the spreadsheets of the portfolio runs
Spreadsheets ==
    {<<RowA>>, <<RowB, RowE>>, <<RowA, RowB>>, <<RowB, RowN>>, <<RowB, RowE, RowA>>}

\* the standard normal draws of one roll_once call: <<z_rotc, z_plowback, z_cash_flow>>
ZValues == {-3, -2, 0, 1}
AllDraws == ZValues \X ZValues \X ZValues
TrialDraws == {<<0, 0, 0>>, <<0, 0, -3>>, <<0, 0, -2>>}

\* the largest iterations argument of allocate, and the number of allocate calls
MaxIterations == 2
MaxCalls == 2

(* ------------------------------------------------------------------ *)
(* Portfolio                                                           *)
(* ------------------------------------------------------------------ *)

VARIABLES
    stocks,             \* Portfolio.stocks: the dict of Stock objects
    allocation_trials,  \* Portfolio.allocation_trials: unset, or the DataFrame
    mean_allocations,   \* Portfolio.mean_allocations: None, or the Series
    pc,                 \* "idle", or "trials": inside allocate's loop
    iterations,         \* allocate's argument, of the running or the last call
    i,                  \* allocate's loop variable: the trials done
    ratios_log,         \* the ratios dict of each trial done by the running or last call
    rolls,              \* the roll_once calls made on each stock by the running or last call
    calls,              \* the allocate calls started
    returned,           \* the allocate calls that returned
    raised,             \* the exception that ended the last allocate call, or "none"
    last_roll           \* the draws and outcome of the last direct roll_once call

vars == <<stocks, allocation_trials, mean_allocations, pc, iterations, i, ratios_log,
          rolls, calls, returned, raised, last_roll>>

KeySet(d) == {d.keys[k] : k \in 1..Len(d.keys)}

None == [kind |-> "None"]
Unset == [kind |-> "unset"]

\* Portfolio.__init__
PortfolioInit(d) ==
    /\ stocks = d
    /\ mean_allocations = None
    /\ allocation_trials = Unset

\* the position of stock s in the keys of the dict
Position(d, s) == CHOOSE k \in 1..Len(d.keys) : d.keys[k] = s

\* _allocate_once's first loop from position k on: roll_once on every stock, in the
\* order of the keys, each with its own draws; the outcomes in that order
RECURSIVE RollAll(_, _, _)
RollAll(d, z, k) ==
    IF k > Len(d.keys) THEN <<>>
    ELSE <<RollOnce(d.at[d.keys[k]], z[d.keys[k]])>> \o RollAll(d, z, k + 1)

\* the position of the first outcome that is an exception, 0 if none is
FirstRaise(rolled) ==
    LET bad == {k \in 1..Len(rolled) : rolled[k].raised # "none"}
    IN IF bad = {} THEN 0 ELSE CHOOSE k \in bad : \A j \in bad : k <= j

\* the roll_once calls one _allocate_once call makes on the stock at position k:
\* the loop ends at the first exception
RollCalls(rolled, k) == IF FirstRaise(rolled) = 0 \/ k <= FirstRaise(rolled) THEN 1 ELSE 0

\* np.sum(list(ratios.values()))
SumRatios(d, ratios) == SumSeq([k \in 1..Len(d.keys) |-> ratios[d.keys[k]]])

\* a normalisation by the sum of the magnitudes of the ratios
Allocations_AbsSum(d, ratios) ==
    LET magnitude(x) == IF IsNeg(x) THEN Neg(x) ELSE x
        sum_abs == SumSeq([k \in 1..Len(d.keys) |-> magnitude(ratios[d.keys[k]])])
    IN [s \in KeySet(d) |-> Div(ratios[s], sum_abs)]

\* _allocate_once's second loop: allocations[stock] = ratios[stock] / sum_ratios
Allocations(d, ratios) ==
    LET sum_ratios == SumRatios(d, ratios)
    IN [s \in KeySet(d) |-> Div(ratios[s], sum_ratios)]

\* Portfolio._allocate_once, given the outcomes of its roll_once calls: the ratios
\* sampled and the dict returned, or the exception
AllocateOnce(d, rolled) ==
    IF FirstRaise(rolled) # 0
    THEN [raised |-> rolled[FirstRaise(rolled)].raised]
    ELSE LET ratios == [s \in KeySet(d) |-> rolled[Position(d, s)].value[3]]
         IN [raised |-> "none", ratios |-> ratios, allocations |-> Allocations(d, ratios)]

\* an allocate that keeps the rows of the DataFrame of an earlier call
ZerosFrame_Keep(n, d) ==
    LET old == IF allocation_trials.kind = "DataFrame" THEN allocation_trials.data ELSE <<>>
        rows == IF Len(old) > n THEN Len(old) ELSE n
    IN [kind |-> "DataFrame", columns |-> d.keys,
        data |-> [t \in 1..rows |->
                    IF t <= Len(old) THEN old[t] ELSE [c \in KeySet(d) |-> Num(0)]]]

\* pd.DataFrame(data=np.zeros((iterations, len(stocks))), columns=list(stocks.keys()))
ZerosFrame(n, d) ==
    [kind |-> "DataFrame", columns |-> d.keys,
     data |-> [t \in 1..n |-> [c \in KeySet(d) |-> Num(0)]]]

\* a row assignment by position, from the values taken in the opposite order
SetRow_Positional(df, t, value) ==
    LET n == Len(df.columns)
        at(c) == CHOOSE k \in 1..n : df.columns[k] = c
    IN [df EXCEPT !.data[t] = [c \in DOMAIN df.data[t] |-> value[df.columns[n + 1 - at(c)]]]]

\* df.iloc[t, :] = value for a dict: the values are aligned with the columns by key
SetRow(df, t, value) ==
    [df EXCEPT !.data[t] = [c \in DOMAIN df.data[t] |-> value[c]]]

RECURSIVE SkipNaN(_)
SkipNaN(s) ==
    IF s = <<>> THEN <<>>
    ELSE IF IsNaN(Head(s)) THEN SkipNaN(Tail(s))
    ELSE <<Head(s)>> \o SkipNaN(Tail(s))

\* a mean that leaves the NaN entries out of the sum but not out of the count
SeriesMean_CountAll(s) ==
    IF SkipNaN(s) = <<>> THEN NaN ELSE Div(SumSeq(SkipNaN(s)), Num(Len(s)))

\* a mean that does not skip NaN
SeriesMean_Propagate(s) == IF s = <<>> THEN NaN ELSE Div(SumSeq(s), Num(Len(s)))

\* Series.mean() with pandas' default skipna=True: the NaN entries are left out of
\* the sum and of the count; the mean of no entry is NaN
SeriesMean(s) ==
    LET kept == SkipNaN(s)
    IN IF kept = <<>> THEN NaN ELSE Div(SumSeq(kept), Num(Len(kept)))

Column(df, c) == [t \in 1..Len(df.data) |-> df.data[t][c]]

\* DataFrame.mean(): the Series of the column means
FrameMean(df) ==
    [kind |-> "Series", index |-> df.columns,
     values |-> [c \in {df.columns[k] : k \in 1..Len(df.columns)} |->
                    SeriesMean(Column(df, c))]]

\* str(series): one line per entry with its label and its value, then the dtype
Render(series) ==
    [text |-> "Series", dtype |-> "float64",
     lines |-> [k \in 1..Len(series.index) |->
                   <<series.index[k], series.values[series.index[k]]>>]]

Placeholder == [text |-> "Portfolio"]

\* a representation that looks at the trial matrix instead of the mean vector
Repr_FromTrials ==
    IF allocation_trials.kind = "DataFrame" THEN Render(FrameMean(allocation_trials))
    ELSE Placeholder

\* Portfolio.__repr__
Repr == IF mean_allocations.kind = "Series" THEN Render(mean_allocations)
        ELSE Placeholder

NoRoll == [stock |-> "none"]

\* the stocks after one _allocate_once call with the draws z
StocksAfterTrial(d, z, rolled) ==
    [d EXCEPT !.at = [s \in KeySet(d) |->
        IF RollCalls(rolled, Position(d, s)) = 1
        THEN RollOnceSelf(d.at[s], z[s]) ELSE d.at[s]]]

\* allocate(n), up to its loop: the zero-filled DataFrame
AllocateCall(n) ==
    /\ pc = "idle"
    /\ calls < MaxCalls
    /\ allocation_trials' = ZerosFrame(n, stocks)
    /\ pc' = "trials"
    /\ iterations' = n
    /\ i' = 0
    /\ ratios_log' = <<>>
    /\ rolls' = [s \in KeySet(stocks) |-> 0]
    /\ calls' = calls + 1
    /\ raised' = "none"
    /\ last_roll' = NoRoll
    /\ UNCHANGED <<stocks, mean_allocations, returned>>

\* one pass of allocate's loop: allocation_trials.iloc[i, :] = self._allocate_once();
\* an exception of roll_once ends the call
AllocateTrial ==
    /\ pc = "trials"
    /\ i < iterations
    /\ \E z \in [KeySet(stocks) -> TrialDraws] :
        \E rolled \in {RollAll(stocks, z, 1)} :
        \E once \in {AllocateOnce(stocks, rolled)} :
        /\ stocks' = StocksAfterTrial(stocks, z, rolled)
        /\ rolls' = [s \in KeySet(stocks) |->
                        rolls[s] + RollCalls(rolled, Position(stocks, s))]
        /\ IF once.raised # "none"
           THEN /\ pc' = "idle"
                /\ raised' = once.raised
                /\ UNCHANGED <<allocation_trials, i, ratios_log>>
           ELSE /\ allocation_trials' = SetRow(allocation_trials, i + 1, once.allocations)
                /\ i' = i + 1
                /\ ratios_log' = Append(ratios_log, once.ratios)
                /\ UNCHANGED <<pc, raised>>
    /\ UNCHANGED <<mean_allocations, iterations, calls, returned, last_roll>>

\* the end of allocate: self.mean_allocations = self.allocation_trials.mean()
AllocateMean ==
    /\ pc = "trials"
    /\ i = iterations
    /\ mean_allocations' = FrameMean(allocation_trials)
    /\ pc' = "idle"
    /\ returned' = returned + 1
    /\ UNCHANGED <<stocks, allocation_trials, iterations, i, ratios_log, rolls, calls,
                   raised, last_roll>>

\* a direct call of roll_once on one stock, its draws taken from draws
RollOnceCall(draws) ==
    /\ pc = "idle"
    /\ \E s \in KeySet(stocks), z \in draws :
        /\ last_roll' = [stock |-> s, z |-> z, outcome |-> RollOnce(stocks.at[s], z)]
        /\ stocks' = [stocks EXCEPT !.at[s] = RollOnceSelf(stocks.at[s], z)]
    /\ UNCHANGED <<allocation_trials, mean_allocations, pc, iterations, i, ratios_log,
                   rolls, calls, returned, raised>>

InitCommon ==
    /\ pc = "idle"
    /\ iterations = 0
    /\ i = 0
    /\ ratios_log = <<>>
    /\ rolls = [s \in KeySet(stocks) |-> 0]
    /\ calls = 0
    /\ returned = 0
    /\ raised = "none"
    /\ last_roll = NoRoll

\* a portfolio built from an imported spreadsheet
Init ==
    /\ \E sheet \in Spreadsheets : PortfolioInit(ImportXlsx(sheet))
    /\ InitCommon

Next ==
    \/ \E n \in 1..MaxIterations : AllocateCall(n)
    \/ AllocateTrial
    \/ AllocateMean
    \/ RollOnceCall(TrialDraws)

Spec == Init /\ [][Next]_vars

\* one stock on its own, sampled with every combination of draws
InitStock ==
    /\ \E r \in Rows : PortfolioInit(ImportXlsx(<<r>>))
    /\ InitCommon

NextStock == RollOnceCall(AllDraws)

SpecStock == InitStock /\ [][NextStock]_vars

(* ------------------------------------------------------------------ *)
(* Properties                                                          *)
(* ------------------------------------------------------------------ *)

\* the last allocate call ran to its end
LastCallCompleted == pc = "idle" /\ calls > 0 /\ raised = "none"

Names == KeySet(stocks)
Data == allocation_trials.data
Means == mean_allocations.values

\* the sum of the weights of row t over the columns
RowSum(t) == SumSeq([k \in 1..Len(stocks.keys) |-> Data[t][stocks.keys[k]]])

\* the sum of the value ratios of trial t
TrialSum(t) == SumSeq([k \in 1..Len(stocks.keys) |-> ratios_log[t][stocks.keys[k]]])

\* C1: after an allocate call completes, every row of the trial matrix whose trial
\* had a non-zero sum of value ratios has weights that sum to exactly 1, whatever
\* the number of stocks and the signs of the ratios.
C1_RowsSumToOne ==
    LastCallCompleted =>
        \A t \in 1..Len(Data) : ~IsZero(TrialSum(t)) => RowSum(t) = Num(1)

\* a completed call of the three-stock portfolio with a row of mixed signs
C1_Witness ==
    /\ LastCallCompleted
    /\ Len(stocks.keys) = 3
    /\ \E t \in 1..Len(Data) :
        /\ ~IsZero(TrialSum(t))
        /\ \E a, b \in Names : IsNeg(Data[t][a]) /\ IsPos(Data[t][b])

\* C2: in every trial each stock is sampled exactly once, and the weight stored for
\* stock s in the trial's row, in the column named s, is the value ratio of s's own
\* sample divided by the sum of the value ratios of all the stocks of that trial.
C2_WeightIsOwnRatioOverSum ==
    /\ [](allocation_trials.kind = "DataFrame" =>
            /\ allocation_trials.columns = stocks.keys
            /\ \A t \in 1..Len(ratios_log) : \A s \in Names :
                Data[t][s] = Div(ratios_log[t][s], TrialSum(t))
            /\ (pc = "trials" \/ LastCallCompleted) =>
                \A s \in Names : rolls[s] = Len(ratios_log))
    /\ [][Len(ratios_log') = Len(ratios_log) + 1 =>
            \E z \in [Names -> TrialDraws] : \A s \in Names :
                LET sample == RollOnce(stocks.at[s], z[s])
                IN /\ sample.raised = "none"
                   /\ ratios_log'[Len(ratios_log')][s] = sample.value[3]]_vars

\* the portfolio <<A, B>> whose ratios are 2 : 1 in a trial: the row is {A: 2/3, B: 1/3}
C2_Witness ==
    /\ LastCallCompleted
    /\ stocks.keys = <<"A", "B">>
    /\ \E t \in 1..Len(Data) :
        /\ ratios_log[t]["A"] = Mul(Num(2), ratios_log[t]["B"])
        /\ Data[t]["A"] = <<2, 3>>
        /\ Data[t]["B"] = <<1, 3>>

\* the entries of s that are not NaN, in order
NotNaN(s) == SelectSeq(s, LAMBDA x : x # NaN)

Reverse(s) == [k \in 1..Len(s) |-> s[Len(s) + 1 - k]]

C5_AllocateOverwrites ==
    LastCallCompleted =>
        /\ Len(Data) = iterations
        /\ Len(ratios_log) = iterations
        /\ allocation_trials.columns = stocks.keys
        /\ \A t \in 1..Len(Data) :
            /\ DOMAIN Data[t] = Names
            /\ \A s \in Names : Data[t][s] = Div(ratios_log[t][s], TrialSum(t))
        /\ mean_allocations = FrameMean(allocation_trials)

\* two completed calls, the second of one iteration
C5_Witness ==
    /\ LastCallCompleted
    /\ returned = 2
    /\ iterations = 1

\* C6: sampling and allocation never change a stock, nor the names or the order of
\* the stock mapping.
C6_StocksNeverChange == [][stocks' = stocks]_vars

\* a second call running after a completed one, every stock sampled
C6_Witness ==
    /\ returned >= 1
    /\ pc = "trials"
    /\ \A s \in Names : rolls[s] >= 1

\* C7: the textual representation is the placeholder while no allocate call has
\* completed, and the rendering of the mean vector of the most recently completed
\* call afterwards.
C7_ReprFollowsCompletedCalls ==
    /\ [](returned = 0 => Repr = Placeholder)
    /\ [](LastCallCompleted => Repr = Render(FrameMean(allocation_trials)))
    /\ [][returned' = returned => Repr' = Repr]_vars

\* a call that raised after a completed one: the representation still renders a mean
C7_Witness ==
    /\ returned = 1
    /\ calls = 2
    /\ raised # "none"
    /\ Repr # Placeholder

\* the terms of the WACC of the claim
CostOfDebt(st) ==
    IF IsPos(st.long_term_debt_balance)
    THEN Mul(Div(st.long_term_interest_payment, st.long_term_debt_balance),
             Sub(Num(1), st.tax_rate))
    ELSE Num(0)

CostOfPreferred(st) ==
    IF IsPos(st.preferred_stock) THEN Div(st.preferred_dividend, st.preferred_stock)
    ELSE Num(0)

CostOfEquity(st) ==
    Add(st.us_treasury_note_risk_free_yield_10y,
        Mul(st.beta, st.us_equities_exp_real_return_10y))

MarketCap(st) == Mul(st.common_shares_outstanding, st.price)

TotalCapital(st) == Add(st.long_term_debt_balance, Add(st.preferred_stock, MarketCap(st)))

\* C8: for a stock with total capital > 0, WACC * total capital is the sum of the
\* three costs, each weighted by its balance; with no debt and no preferred stock
\* the WACC is the cost of equity.
C8_WaccFormula ==
    \A s \in Names :
        LET st == stocks.at[s] IN
        IsPos(TotalCapital(st)) =>
            /\ Mul(st.weighted_average_cost_of_capital, TotalCapital(st)) =
                 Add(Mul(CostOfEquity(st), MarketCap(st)),
                     Add(Mul(CostOfPreferred(st), st.preferred_stock),
                         Mul(CostOfDebt(st), st.long_term_debt_balance)))
            /\ (IsZero(st.long_term_debt_balance) /\ IsZero(st.preferred_stock)) =>
                 st.weighted_average_cost_of_capital = CostOfEquity(st)

\* stock A: debt, preferred stock and equity; its WACC is 0.33
C8_Witness ==
    \E s \in Names :
        /\ IsPos(stocks.at[s].long_term_debt_balance)
        /\ IsPos(stocks.at[s].preferred_stock)
        /\ IsPos(stocks.at[s].tax_rate)
        /\ stocks.at[s].weighted_average_cost_of_capital = <<33, 100>>
        /\ last_roll # NoRoll

\* the draws of the last direct roll_once call
DrawnRotc ==
    Normal(stocks.at[last_roll.stock].vl_return_on_total_capital,
           stocks.at[last_roll.stock].vl_return_on_total_capital_std_dev, last_roll.z[1])
DrawnPlowback ==
    Normal(stocks.at[last_roll.stock].vl_retained_earnings_plowback_ratio,
           stocks.at[last_roll.stock].vl_retained_earnings_plowback_ratio_std_dev,
           last_roll.z[2])
DrawnCashFlow ==
    Normal(stocks.at[last_roll.stock].vl_cash_flow_per_share,
           stocks.at[last_roll.stock].vl_cash_flow_per_share_std_dev, last_roll.z[3])

AbsVal(x) == IF IsNeg(x) THEN Neg(x) ELSE x

\* C9: a roll_once call that draws a cash flow other than 0 returns
\* growth_rate = 100 * (rotc - WACC) * p, valuation_multiple = price / cash_flow and
\* value_ratio = growth_rate / valuation_multiple, with p the drawn plowback clamped
\* into [0, 1]; the growth rate never has the sign opposite to rotc - WACC and is
\* at most 100 * |rotc - WACC| in magnitude.
C9_RollOnceTriple ==
    (last_roll # NoRoll /\ last_roll.outcome.raised = "none" /\ ~IsZero(DrawnCashFlow)) =>
        LET st == stocks.at[last_roll.stock]
            p == IF IsNeg(DrawnPlowback) THEN Num(0)
                 ELSE IF IsPos(Sub(DrawnPlowback, Num(1))) THEN Num(1)
                 ELSE DrawnPlowback
            excess == Sub(DrawnRotc, st.weighted_average_cost_of_capital)
            growth_rate == last_roll.outcome.value[1]
            valuation_multiple == last_roll.outcome.value[2]
            value_ratio == last_roll.outcome.value[3]
        IN /\ growth_rate = Mul(Num(100), Mul(excess, p))
           /\ valuation_multiple = Div(st.price, DrawnCashFlow)
           /\ value_ratio = Div(growth_rate, valuation_multiple)
           /\ Sign(growth_rate[1]) * Sign(excess[1]) >= 0
           /\ ~IsPos(Sub(AbsVal(growth_rate), Mul(Num(100), AbsVal(excess))))

\* a roll whose plowback draw is above 1 and whose rotc draw is below the WACC
C9_Witness ==
    /\ last_roll # NoRoll
    /\ last_roll.outcome.raised = "none"
    /\ ~IsZero(DrawnCashFlow)
    /\ IsPos(Sub(DrawnPlowback, Num(1)))
    /\ IsNeg(Sub(DrawnRotc, stocks.at[last_roll.stock].weighted_average_cost_of_capital))
    /\ IsNeg(last_roll.outcome.value[1])

\* C10: roll_once raises no error, whatever the signs of the stock's means and also
\* when the drawn cash flow is zero or negative: each call returns a triple.
C10_RollOnceNeverRaises ==
    last_roll # NoRoll =>
        /\ last_roll.outcome.raised = "none"
        /\ Len(last_roll.outcome.value) = 3

====
